---- MODULE Spec2Model ----
(***************************************************************************)
(* Model of angular_to_prompt.py: a directory walk with ignore rules that  *)
(* renders a tree listing (generate_tree), collects file content blocks    *)
(* (generate_prompt) and writes the result to an output file (main).       *)
(*                                                                         *)
(* Text is a sequence of tokens.  Path and file names are sequences of     *)
(* one-character tokens, so that str.replace, str.count, os.path.splitext  *)
(* and os.path.relpath work on characters as they do in the program.       *)
(* Fixed literals of the program ("### FILE CONTENTS ###\n", ...) are one  *)
(* token each.  File data is a sequence of byte tokens; "0xFF" is a byte   *)
(* that is not valid UTF-8.  Paths are POSIX paths (os.sep = "/").         *)
(***************************************************************************)
EXTENDS Integers, Sequences, FiniteSets, TLC

VARIABLES
    listing,      \* filesystem: directory path -> names in it, in scandir order
    data,         \* filesystem: file path -> bytes
    unlistable,   \* directories whose listing raises PermissionError
    unopenable,   \* files whose open() raises PermissionError
    cwd,          \* the process's current working directory
    argPath,      \* args.path
    argOutput,    \* args.output
    pc,           \* position in main
    run,          \* number of the current invocation of the tool
    project_path, \* main: project_path
    treeLines,    \* generate_tree: the lines appended to tree_str
    output,       \* generate_prompt: the list output
    todo,         \* generate_prompt: files the os.walk loop has yet to reach
    full_prompt,  \* main: full_prompt
    stdout,       \* every line printed so far in this invocation
    outHist       \* bytes of the output file after each invocation that wrote it

vars == <<listing, data, unlistable, unopenable, cwd, argPath, argOutput, pc, run,
          project_path, treeLines, output, todo, full_prompt, stdout, outHist>>

fsVars == <<listing, data, unlistable, unopenable>>
argVars == <<cwd, argPath, argOutput>>

\* Number of invocations of the tool in one behaviour.
MaxRuns == 2

-----------------------------------------------------------------------------
(* Names used by the program and by the filesystems explored.              *)

SEP == "/"
DOT == "."

IGNORE_DIRS ==
    { <<"n","o","d","e","_","m","o","d","u","l","e","s">>,
      <<"d","i","s","t">>,
      <<".","g","i","t">>,
      <<".","a","n","g","u","l","a","r">>,
      <<".","v","s","c","o","d","e">>,
      <<".","i","d","e","a">>,
      <<"c","o","v","e","r","a","g","e">> }

IGNORE_FILES ==
    { <<"p","a","c","k","a","g","e","-","l","o","c","k",".","j","s","o","n">>,
      <<"y","a","r","n",".","l","o","c","k">>,
      <<".","D","S","_","S","t","o","r","e">>,
      <<"f","a","v","i","c","o","n",".","i","c","o">> }

IGNORE_EXTENSIONS ==
    { <<".","p","n","g">>, <<".","j","p","g">>, <<".","j","p","e","g">>,
      <<".","g","i","f">>, <<".","s","v","g">>, <<".","i","c","o">>,
      <<".","t","t","f">>, <<".","w","o","f","f">>, <<".","w","o","f","f","2">>,
      <<".","e","o","t">>, <<".","m","p","4">>, <<".","p","d","f">>,
      <<".","e","x","e">>, <<".","d","l","l">>, <<".","s","o">>,
      <<".","d","y","l","i","b">>, <<".","c","l","a","s","s">>, <<".","j","a","r">> }

DefaultPath == <<".">>
DefaultOutput ==
    <<"p","r","o","j","e","c","t","_","c","o","n","t","e","x","t",".","t","x","t">>

-----------------------------------------------------------------------------
(* String and path functions of the Python library, as the program uses    *)
(* them.                                                                   *)

\* str.replace(old, ''): every non-overlapping occurrence, left to right.
RECURSIVE RemoveAll(_, _)
RemoveAll(s, old) ==
    IF old = <<>> \/ Len(s) < Len(old) THEN s
    ELSE IF SubSeq(s, 1, Len(old)) = old
         THEN RemoveAll(SubSeq(s, Len(old) + 1, Len(s)), old)
         ELSE <<Head(s)>> \o RemoveAll(Tail(s), old)

\* str.count(c) for a one-character c.
RECURSIVE Count(_, _)
Count(s, c) ==
    IF s = <<>> THEN 0
    ELSE (IF Head(s) = c THEN 1 ELSE 0) + Count(Tail(s), c)

\* str.rfind(c) as a 1-based index, 0 when c does not occur.
RFind(s, c) ==
    LET hits == { i \in 1..Len(s) : s[i] = c }
    IN IF hits = {} THEN 0 ELSE CHOOSE i \in hits : \A j \in hits : j <= i

\* os.path.splitext(p)[1]: the text from the last dot on, unless that dot is
\* one of the dots the name starts with.
SplitExt(p) ==
    LET sepIndex == RFind(p, SEP)
        dotIndex == RFind(p, DOT)
    IN IF dotIndex > sepIndex
          /\ \E k \in (sepIndex + 1)..(dotIndex - 1) : p[k] # DOT
       THEN SubSeq(p, dotIndex, Len(p))
       ELSE <<>>

\* os.path.basename(p).
Basename(p) == SubSeq(p, RFind(p, SEP) + 1, Len(p))

\* os.path.dirname(p), used to resolve where open(args.output, "w") creates
\* the file.
Dirname(p) ==
    LET i == RFind(p, SEP)
    IN IF i = 0 THEN <<>> ELSE IF i = 1 THEN <<SEP>> ELSE SubSeq(p, 1, i - 1)

\* os.path.join(a, b).
PathJoin(a, b) ==
    IF b # <<>> /\ Head(b) = SEP THEN b
    ELSE IF a = <<>> \/ a[Len(a)] = SEP THEN a \o b
    ELSE a \o <<SEP>> \o b

\* os.path.abspath(p) for the normalised arguments explored: ".", an absolute
\* path, or a relative name.
Abspath(p) ==
    IF p = DefaultPath THEN cwd
    ELSE IF p # <<>> /\ Head(p) = SEP THEN p
    ELSE PathJoin(cwd, p)

\* str.split(os.sep) without the empty components.
RECURSIVE Components(_)
Components(p) ==
    IF p = <<>> THEN <<>>
    ELSE IF Head(p) = SEP THEN Components(Tail(p))
    ELSE LET rest == Tail(p)
             i == IF \E k \in 1..Len(rest) : rest[k] = SEP
                  THEN CHOOSE k \in 1..Len(rest) :
                          rest[k] = SEP /\ \A j \in 1..(k - 1) : rest[j] # SEP
                  ELSE Len(rest) + 1
         IN <<(<<Head(p)>> \o SubSeq(rest, 1, i - 1))>>
            \o Components(SubSeq(rest, i, Len(rest)))

RECURSIVE JoinComponents(_)
JoinComponents(cs) ==
    IF cs = <<>> THEN <<>>
    ELSE IF Len(cs) = 1 THEN cs[1]
    ELSE cs[1] \o <<SEP>> \o JoinComponents(Tail(cs))

\* Length of the longest common prefix of two component lists.
RECURSIVE CommonLen(_, _)
CommonLen(a, b) ==
    IF a = <<>> \/ b = <<>> \/ Head(a) # Head(b) THEN 0
    ELSE 1 + CommonLen(Tail(a), Tail(b))

\* os.path.relpath(path, start) for absolute normalised paths.
Relpath(path, start) ==
    LET pc0 == Components(path)
        sc == Components(start)
        i == CommonLen(sc, pc0)
        ups == [k \in 1..(Len(sc) - i) |-> <<".", ".">>]
        rel == ups \o SubSeq(pc0, i + 1, Len(pc0))
    IN IF rel = <<>> THEN <<".">> ELSE JoinComponents(rel)

-----------------------------------------------------------------------------
(* The filesystem as the program sees it.                                  *)

IsDir(p) == p \in DOMAIN listing
IsFile(p) == p \in DOMAIN data

\* The existence check left out.
PathExists_Always(p) == TRUE

\* os.path.exists(project_path), main's only fatal check.
PathExists(p) == IsDir(p) \/ IsFile(p)

\* The bytes of a text written with encoding="utf-8" (every token explored
\* is ASCII) and the text of bytes read with it.
EncodeUtf8(text) == text
InvalidByte == "0xFF"
IsValidUtf8(bytes) == \A i \in 1..Len(bytes) : bytes[i] # InvalidByte
DecodeUtf8(bytes) == bytes

\* open(..., 'r') reads in text mode with newline=None: "\r\n" and a lone
\* "\r" arrive as "\n".
UniversalNewlines(t) ==
    LET at == [i \in 1..Len(t) |-> [i |-> i, c |-> t[i]]]
        kept == SelectSeq(at, LAMBDA e :
                    ~(e.c = "\n" /\ e.i > 1 /\ t[e.i - 1] = "\r"))
    IN [k \in 1..Len(kept) |-> IF kept[k].c = "\r" THEN "\n" ELSE kept[k].c]

\* with open(file_path, 'r', encoding='utf-8') as f: content = f.read()
ReadText(p) ==
    IF p \in unopenable \/ ~IsFile(p)
    THEN [ok |-> FALSE, err |-> "PermissionError", text |-> <<>>]
    ELSE IF ~IsValidUtf8(data[p])
    THEN [ok |-> FALSE, err |-> "UnicodeDecodeError", text |-> <<>>]
    ELSE [ok |-> TRUE, err |-> "", text |-> UniversalNewlines(DecodeUtf8(data[p]))]

-----------------------------------------------------------------------------
(* The ignore rules, as each of the two loops writes them.                 *)

\* The tree walk without its pruning of dirs.
TreeKeepDir_NoPrune(d) == TRUE

TreeKeepDir(d) == d \notin IGNORE_DIRS

\* The content walk without its pruning of dirs.
PromptKeepDir_NoPrune(d) == TRUE

PromptKeepDir(d) == d \notin IGNORE_DIRS

KeepDir(stage, d) == IF stage = "tree" THEN TreeKeepDir(d) ELSE PromptKeepDir(d)

\* The tree's file filter without its extension test.
TreeKeepFile_NameOnly(f) == f \notin IGNORE_FILES

TreeKeepFile(f) == f \notin IGNORE_FILES /\ SplitExt(f) \notin IGNORE_EXTENSIONS

PromptSkipFile(f) == f \in IGNORE_FILES \/ SplitExt(f) \in IGNORE_EXTENSIONS

\* os.walk(top), top-down, with the loop body's in-place pruning of dirs.
\* The walk is called without onerror: a directory whose listing raises
\* OSError yields nothing and is not reported.
RECURSIVE Walk(_, _)
RECURSIVE WalkAll(_, _, _)
Walk(top, stage) ==
    IF ~IsDir(top) \/ top \in unlistable THEN <<>>
    ELSE LET entries == listing[top]
             dirs == SelectSeq(entries, LAMBDA n : IsDir(PathJoin(top, n)))
             files == SelectSeq(entries, LAMBDA n : ~IsDir(PathJoin(top, n)))
             kept == SelectSeq(dirs, LAMBDA d : KeepDir(stage, d))
         IN <<[root |-> top, dirs |-> kept, files |-> files]>>
            \o WalkAll(top, kept, stage)
WalkAll(top, ds, stage) ==
    IF ds = <<>> THEN <<>>
    ELSE Walk(PathJoin(top, Head(ds)), stage) \o WalkAll(top, Tail(ds), stage)

-----------------------------------------------------------------------------
(* generate_tree                                                           *)

\* level = root.replace(startpath, '').count(os.sep)
Level(root, startpath) == Count(RemoveAll(root, startpath), SEP)

\* The lines one step of the loop appends: the directory, then its retained
\* files.  `path` records which entry of the filesystem the line stands for.
TreeLinesOfDir(step, startpath) ==
    LET level == Level(step.root, startpath)
        keptFiles == SelectSeq(step.files, TreeKeepFile)
    IN <<[indent |-> 4 * level, name |-> Basename(step.root), isDir |-> TRUE,
          path |-> step.root]>>
       \o [i \in 1..Len(keptFiles) |->
             [indent |-> 4 * (level + 1), name |-> keptFiles[i], isDir |-> FALSE,
              path |-> PathJoin(step.root, keptFiles[i])]]

RECURSIVE TreeLinesOfWalk(_, _)
TreeLinesOfWalk(w, startpath) ==
    IF w = <<>> THEN <<>>
    ELSE TreeLinesOfDir(Head(w), startpath) \o TreeLinesOfWalk(Tail(w), startpath)

generate_tree_lines(startpath) == TreeLinesOfWalk(Walk(startpath, "tree"), startpath)

Spaces(n) == [i \in 1..n |-> " "]

RenderLine(l) ==
    Spaces(l.indent) \o l.name \o (IF l.isDir THEN <<SEP>> ELSE <<>>) \o <<"\n">>

RECURSIVE RenderLines(_)
RenderLines(ls) ==
    IF ls = <<>> THEN <<>> ELSE RenderLine(Head(ls)) \o RenderLines(Tail(ls))

\* The string generate_tree returns.
TreeStr(ls) == <<"### PROJECT STRUCTURE ###\n\n">> \o RenderLines(ls) \o <<"\n">>

-----------------------------------------------------------------------------
(* generate_prompt                                                         *)

RECURSIVE FilesOfWalk(_)
FilesOfWalk(w) ==
    IF w = <<>> THEN <<>>
    ELSE [i \in 1..Len(Head(w).files) |->
            [root |-> Head(w).root, file |-> Head(w).files[i]]]
         \o FilesOfWalk(Tail(w))

\* The files the second os.walk loop reaches, in the order it reaches them.
PromptFiles(startpath) == FilesOfWalk(Walk(startpath, "prompt"))

StartMarker(rel) == <<"--- START OF FILE: ">> \o rel \o <<" ---">>
EndMarker(rel) == <<"--- END OF FILE: ">> \o rel \o <<" ---\n">>
\* The fence is three backquotes, written here as "~~~".
FenceOpen == <<"~~~typescript">>
FenceClose == <<"~~~">>

\* The five entries appended for a file that was read.
Block(rel, content) ==
    <<StartMarker(rel), FenceOpen, content, FenceClose, EndMarker(rel)>>

SkipLine(rel, e) == <<"Skipping file ">> \o rel \o <<" due to read error: ", e>>

\* "\n".join(output)
RECURSIVE JoinLines(_)
JoinLines(out) ==
    IF out = <<>> THEN <<>>
    ELSE IF Len(out) = 1 THEN out[1]
    ELSE out[1] \o <<"\n">> \o JoinLines(Tail(out))

-----------------------------------------------------------------------------
(* main                                                                    *)

\* The literals of the program are one token each; their lengths in
\* characters.
Literals ==
    { [t |-> "### PROJECT STRUCTURE ###\n\n", n |-> 27],
      [t |-> "### FILE CONTENTS ###\n", n |-> 22],
      [t |-> "--- START OF FILE: ", n |-> 19],
      [t |-> "--- END OF FILE: ", n |-> 17],
      [t |-> " ---", n |-> 4],
      [t |-> " ---\n", n |-> 5],
      [t |-> "~~~typescript", n |-> 13],
      [t |-> "~~~", n |-> 3] }

RECURSIVE SumOver(_, _)
SumOver(S, text) ==
    IF S = {} THEN 0
    ELSE LET l == CHOOSE x \in S : TRUE
         IN (l.n - 1) * Cardinality({ i \in 1..Len(text) : text[i] = l.t })
            + SumOver(S \ {l}, text)

\* len(text) in characters.
CharLen(text) == Len(text) + SumOver(Literals, text)

\* The lines main prints; the two pictographs that open the report lines are
\* left out.
ErrorLine(p) == <<"Error: Path '">> \o p \o <<"' does not exist.">>
ScanLine(p) == <<"Scanning project at: ">> \o p
GeneratingLine == <<"Generating prompt...">>
SuccessLine(o) == <<"Success! Prompt saved to: ">> \o o
TokenCountLine(text) == <<"Approximate Token Count: ", ToString(CharLen(text) \div 4)>>

\* The file open(args.output, "w") names: a relative name is resolved against
\* the current working directory.
OutTarget == PathJoin(cwd, argOutput)

\* open(args.output, "w") raises: the directory is missing, the name is a
\* directory, or the file may not be written.
OpenForWriteFails(target) ==
    \/ ~IsDir(Dirname(target))
    \/ IsDir(target)
    \/ target \in unopenable

\* args = parser.parse_args(); project_path = os.path.abspath(args.path);
\* the existence check and the two progress lines.
Main_CheckPath ==
    /\ pc = "start"
    /\ project_path' = Abspath(argPath)
    /\ IF ~PathExists(project_path')
       THEN /\ stdout' = Append(stdout, ErrorLine(project_path'))
            /\ pc' = "returned"
       ELSE /\ stdout' = stdout \o <<ScanLine(project_path'), GeneratingLine>>
            /\ pc' = "tree"
    /\ UNCHANGED <<fsVars, argVars, run, treeLines, output, todo, full_prompt, outHist>>

\* generate_prompt up to its loop: the tree, the contents header, and the
\* start of the second walk.
GenerateTree ==
    /\ pc = "tree"
    /\ treeLines' = generate_tree_lines(project_path)
    /\ output' = <<TreeStr(treeLines'), <<"### FILE CONTENTS ###\n">>>>
    /\ todo' = PromptFiles(project_path)
    /\ pc' = "collect"
    /\ UNCHANGED <<fsVars, argVars, run, project_path, full_prompt, stdout, outHist>>

\* One pass of the body of `for file in files`.
CollectFile ==
    /\ pc = "collect"
    /\ todo # <<>>
    /\ LET file == Head(todo).file
           file_path == PathJoin(Head(todo).root, file)
           rel_path == Relpath(file_path, project_path)
           r == ReadText(file_path)
       IN IF PromptSkipFile(file)
          THEN UNCHANGED <<output, stdout>>
          ELSE IF r.ok
          THEN /\ output' = output \o Block(rel_path, r.text)
               /\ UNCHANGED stdout
          ELSE /\ stdout' = Append(stdout, SkipLine(rel_path, r.err))
               /\ UNCHANGED output
    /\ todo' = Tail(todo)
    /\ UNCHANGED <<fsVars, argVars, pc, run, project_path, treeLines, full_prompt, outHist>>

\* return "\n".join(output), received by main as full_prompt.
GeneratePromptReturn ==
    /\ pc = "collect"
    /\ todo = <<>>
    /\ full_prompt' = JoinLines(output)
    /\ pc' = "write"
    /\ UNCHANGED <<fsVars, argVars, run, project_path, treeLines, output, todo, stdout, outHist>>

\* with open(args.output, "w", encoding="utf-8") as f: f.write(full_prompt),
\* then the two report lines.  Nothing catches an error of open().
WriteOutput ==
    /\ pc = "write"
    /\ LET target == OutTarget
       IN IF OpenForWriteFails(target)
          THEN /\ pc' = "crashed"
               /\ UNCHANGED <<listing, data, stdout, outHist>>
          ELSE /\ data' = [p \in DOMAIN data \cup {target} |->
                             IF p = target THEN EncodeUtf8(full_prompt) ELSE data[p]]
               /\ listing' = IF IsFile(target) THEN listing
                             ELSE [listing EXCEPT ![Dirname(target)] =
                                      Append(@, Basename(target))]
               /\ stdout' = stdout \o <<SuccessLine(argOutput), TokenCountLine(full_prompt)>>
               /\ outHist' = Append(outHist, [run |-> run, bytes |-> data'[target]])
               /\ pc' = "done"
    /\ UNCHANGED <<unlistable, unopenable, argVars, run, project_path, treeLines,
                   output, todo, full_prompt>>

\* The operator runs the script again with the same arguments.
RunAgain ==
    /\ pc \in {"done", "returned", "crashed"}
    /\ run < MaxRuns
    /\ run' = run + 1
    /\ pc' = "start"
    /\ project_path' = <<>>
    /\ treeLines' = <<>>
    /\ output' = <<>>
    /\ todo' = <<>>
    /\ full_prompt' = <<>>
    /\ stdout' = <<>>
    /\ UNCHANGED <<fsVars, argVars, outHist>>

-----------------------------------------------------------------------------
(* The filesystems and command lines explored.                             *)

WorkDir == <<"/","w">>
MissingDirOutput == <<"/","n","/","o">>
RelativeArg == <<"p">>

StartPaths == { <<"/","a">>, <<"/","d","i","s","t">> }
DirNames == { <<"a">>, <<"d","i","s","t">> }
FileNames == { <<"a",".","t","s">>, <<"x",".","p","n","g">>, <<".","p","n","g">>,
               <<"y","a","r","n",".","l","o","c","k">> }
InnerFile == <<"b",".","t","s">>
Contents == { <<"x">>, <<"x","\r","\n","y","\r">>, <<"x",InvalidByte>> }
InnerContent == <<"y","\n">>

\* <P>/<f1>, <P>/<d1>/b.ts, <P>/<d1>/<d2>/b.ts, and an empty /w.
TreeListing(P, f1, d1, d2) ==
    (WorkDir :> <<>>)
    @@ (P :> <<f1, d1>>)
    @@ (PathJoin(P, d1) :> <<InnerFile, d2>>)
    @@ (PathJoin(PathJoin(P, d1), d2) :> <<InnerFile>>)

TreeData(P, f1, d1, d2, c1) ==
    (PathJoin(P, f1) :> c1)
    @@ (PathJoin(PathJoin(P, d1), InnerFile) :> InnerContent)
    @@ (PathJoin(PathJoin(PathJoin(P, d1), d2), InnerFile) :> InnerContent)

CommandLines(P) ==
    { [cwd |-> P, path |-> DefaultPath, output |-> DefaultOutput],
      [cwd |-> WorkDir, path |-> P, output |-> DefaultOutput],
      [cwd |-> WorkDir, path |-> P, output |-> MissingDirOutput] }

CommandLinesNoRoot(P) ==
    { [cwd |-> WorkDir, path |-> P, output |-> DefaultOutput],
      [cwd |-> WorkDir, path |-> RelativeArg, output |-> DefaultOutput] }

InitLocals ==
    /\ pc = "start"
    /\ run = 1
    /\ project_path = <<>>
    /\ treeLines = <<>>
    /\ output = <<>>
    /\ todo = <<>>
    /\ full_prompt = <<>>
    /\ stdout = <<>>
    /\ outHist = <<>>

InitExisting ==
    \E P \in StartPaths, f1 \in FileNames, d1 \in DirNames, d2 \in DirNames,
       c1 \in Contents, lockedFile \in BOOLEAN, lockedDir \in BOOLEAN :
      \E a \in CommandLines(P) :
        /\ listing = TreeListing(P, f1, d1, d2)
        /\ data = TreeData(P, f1, d1, d2, c1)
        /\ unopenable = IF lockedFile
                        THEN {PathJoin(PathJoin(P, d1), InnerFile)} ELSE {}
        /\ unlistable = IF lockedDir
                        THEN {PathJoin(PathJoin(P, d1), d2)} ELSE {}
        /\ cwd = a.cwd
        /\ argPath = a.path
        /\ argOutput = a.output

InitMissing ==
    \E P \in StartPaths :
      \E a \in CommandLinesNoRoot(P) :
        /\ listing = (WorkDir :> <<>>)
        /\ data = [p \in {} |-> <<>>]
        /\ unopenable = {}
        /\ unlistable = {}
        /\ cwd = a.cwd
        /\ argPath = a.path
        /\ argOutput = a.output

Init == InitLocals /\ (InitExisting \/ InitMissing)

Next ==
    \/ Main_CheckPath
    \/ GenerateTree
    \/ CollectFile
    \/ GeneratePromptReturn
    \/ WriteOutput
    \/ RunAgain

Spec == Init /\ [][Next]_vars

-----------------------------------------------------------------------------
(* Vocabulary of the properties.                                           *)

IsPrefix(a, b) == Len(a) <= Len(b) /\ SubSeq(b, 1, Len(a)) = a
Occurs(sub, s) ==
    \E k \in 0..(Len(s) - Len(sub)) : SubSeq(s, k + 1, k + Len(sub)) = sub

\* p lies beneath directory d, at any depth.
Under(p, d) == IsPrefix(d \o <<SEP>>, p)

\* Number of directory levels from the start path down to p.
DepthBelowRoot(p) == Len(Components(p)) - Len(Components(project_path))

RootPresent(p) == p \in DOMAIN listing \/ p \in DOMAIN data
NameIgnored(f) ==
    Basename(f) \in IGNORE_FILES \/ SplitExt(Basename(f)) \in IGNORE_EXTENSIONS
Readable(f) ==
    f \notin unopenable /\ \A i \in 1..Len(data[f]) : data[f][i] # InvalidByte

ReadErrors == {"PermissionError", "UnicodeDecodeError"}

TreeFiles == { treeLines[i].path : i \in { j \in 1..Len(treeLines) : ~treeLines[j].isDir } }
TreeDirs == { treeLines[i].path : i \in { j \in 1..Len(treeLines) : treeLines[j].isDir } }
HasBlock(f) ==
    \E i \in 1..Len(output) : output[i] = StartMarker(Relpath(f, project_path))
HasDiag(f) ==
    \E i \in 1..Len(stdout) : \E e \in ReadErrors :
        stdout[i] = SkipLine(Relpath(f, project_path), e)
BlockFiles == { f \in DOMAIN data : HasBlock(f) }

\* Both walks are over, the output file is not yet rewritten.
Collected == pc = "write"
\* Both walks are over.
WalksOver == pc \in {"write", "done", "crashed"}

-----------------------------------------------------------------------------
(* Properties.                                                             *)

\* Directory d is not descended into and nothing beneath it is in the tree
\* listing, in a content block, or still ahead of the second walk.
SubtreeAbsent(d) ==
    /\ \A i \in 1..Len(treeLines) :
          treeLines[i].path # d /\ ~Under(treeLines[i].path, d)
    /\ \A i \in 1..Len(todo) : todo[i].root # d /\ ~Under(todo[i].root, d)
    /\ \A f \in DOMAIN data : Under(f, d) => ~HasBlock(f) /\ ~HasDiag(f)

\* C1 as stated: every directory of the tree rooted at the start path, the
\* start path included, whose name is in IGNORE_DIRS is never descended into
\* and no file beneath it appears in the tree listing or in a content block.
C1_IgnoredDirsAbsent_Original ==
    \A d \in DOMAIN listing :
       (project_path # <<>> /\ (d = project_path \/ Under(d, project_path))
          /\ Basename(d) \in IGNORE_DIRS)
       => SubtreeAbsent(d)

\* C1 amended: every directory strictly below the start path whose name is
\* in IGNORE_DIRS is never descended into, and no file beneath it at any
\* depth appears in the tree listing or in a content block.
C1_IgnoredDirsAbsent ==
    \A d \in DOMAIN listing :
       (project_path # <<>> /\ Under(d, project_path) /\ Basename(d) \in IGNORE_DIRS)
       => SubtreeAbsent(d)

\* A finished run over a tree with an ignored directory below the root that
\* holds a file two levels down, while a file outside it got its block.
C1_Witness ==
    /\ pc = "done"
    /\ \E d \in DOMAIN listing :
          /\ Under(d, project_path)
          /\ Basename(d) \in IGNORE_DIRS
          /\ \E f \in DOMAIN data : Under(f, d) /\ Under(Dirname(f), d)
    /\ BlockFiles # {}

\* C2: a file whose exact name is in IGNORE_FILES or whose splitext extension
\* is in IGNORE_EXTENSIONS is in neither the tree listing nor a content block,
\* and no diagnostic is printed for it.
C2_IgnoredFilesAbsent ==
    \A f \in DOMAIN data :
       (project_path # <<>> /\ NameIgnored(f))
       => f \notin TreeFiles /\ ~HasBlock(f) /\ ~HasDiag(f)

\* A finished run whose root directory, which was walked, holds an ignored
\* file that could not have been decoded, next to files that got blocks.
C2_Witness ==
    /\ pc = "done"
    /\ \E f \in DOMAIN data :
          /\ NameIgnored(f)
          /\ Dirname(f) = project_path
          /\ ~Readable(f)
    /\ BlockFiles # {}

\* The per-file part of C3: once the walks are over, a retained file that
\* cannot be read has no block and has a diagnostic, and every retained
\* readable file has its block.
C3_UnreadableSkipped ==
    WalksOver =>
      \A f \in TreeFiles :
         IF Readable(f) THEN HasBlock(f) ELSE ~HasBlock(f) /\ HasDiag(f)

\* C3: when a retained file cannot be read, its block is omitted, a
\* diagnostic names it, every other retained readable file has a block, and
\* the run completes with the output file written.
C3_UnreadableSkippedRunCompletes ==
    (WalksOver /\ \E f \in TreeFiles : ~Readable(f))
    => /\ C3_UnreadableSkipped
       /\ pc # "crashed"
       /\ pc = "done" => data[OutTarget] = EncodeUtf8(full_prompt)

\* C4: with a start path that does not exist, main prints the diagnostic
\* naming the path and returns; neither stage runs and the filesystem is
\* left as it was.  The filesystem changes only in runs whose root exists.
C4_MissingRootWritesNothing ==
    [][ /\ (pc = "start" /\ ~RootPresent(Abspath(argPath)))
           => /\ pc' = "returned"
              /\ stdout' = <<ErrorLine(Abspath(argPath))>>
              /\ treeLines' = <<>> /\ output' = <<>> /\ full_prompt' = <<>>
              /\ UNCHANGED fsVars
        /\ pc = "returned" => (UNCHANGED fsVars /\ pc' = "start")
        /\ (data' # data \/ listing' # listing) => RootPresent(project_path)
      ]_vars

\* The second run has returned on a missing root, with its diagnostic
\* printed and no file anywhere.
C4_Witness ==
    /\ pc = "returned"
    /\ run = MaxRuns
    /\ ~RootPresent(project_path)
    /\ stdout = <<ErrorLine(project_path)>>
    /\ DOMAIN data = {}

\* C5: two runs with the same arguments, with nothing else changing the
\* tree, write byte-identical output files.
C5_Idempotent ==
    \A i, j \in 1..Len(outHist) : outHist[i].bytes = outHist[j].bytes

\* C5 where the output file lies outside the scanned tree.
C5_IdempotentOutputOutside ==
    ~Under(OutTarget, Abspath(argPath)) => C5_Idempotent

\* C6: a retained directory d levels below the root is indented 4*d spaces
\* and a retained file in it 4*(d+1) spaces.
C6_IndentIsDepth ==
    \A i \in 1..Len(treeLines) :
       treeLines[i].indent = 4 * DepthBelowRoot(treeLines[i].path)

\* C6 where the root path occurs in the visited path only as its prefix.
C6_IndentIsDepthNoRecurrence ==
    \A i \in 1..Len(treeLines) :
       LET l == treeLines[i]
           dir == IF l.isDir THEN l.path ELSE Dirname(l.path)
       IN ~Occurs(project_path, Tail(dir))
          => l.indent = 4 * DepthBelowRoot(l.path)

\* C7: once the existence check has passed no error ends the run.
C7_NoErrorEscapes == pc # "crashed"

\* C8: a directory the walk reaches and cannot list is reported to the
\* operator whenever the run goes on.
C8_UnlistableReported ==
    \A d \in unlistable :
       (pc \in {"write", "done"} /\ Dirname(d) \in TreeDirs
          /\ Basename(d) \notin IGNORE_DIRS)
       => \E i \in 1..Len(stdout) : Occurs(Relpath(d, project_path), stdout[i])

BlockText(f, translated) ==
    IF translated THEN UniversalNewlines(data[f]) ELSE data[f]

\* The blocks of the output are whole, and a file that cannot be read has
\* left no part of a block.
BlocksWellFormed(translated) ==
    /\ \A f \in DOMAIN data : \A i \in 1..Len(output) :
          output[i] = StartMarker(Relpath(f, project_path))
          => /\ i + 4 <= Len(output)
             /\ output[i + 1] = FenceOpen
             /\ output[i + 2] = BlockText(f, translated)
             /\ output[i + 3] = FenceClose
             /\ output[i + 4] = EndMarker(Relpath(f, project_path))
    /\ \A f \in DOMAIN data :
          ~Readable(f) => \A i \in 1..Len(output) :
             /\ output[i] # StartMarker(Relpath(f, project_path))
             /\ output[i] # EndMarker(Relpath(f, project_path))

\* C9: every block has matching start and end markers, the text between the
\* fences is the file's content decoded as UTF-8, and a file whose read fails
\* leaves nothing in the output.
C9_BlocksVerbatim ==
    pc \in {"collect", "write"} => BlocksWellFormed(FALSE)

\* C9 with the text between the fences being the decoded content with
\* "\r\n" and "\r" read as "\n".
C9_BlocksNewlinesTranslated ==
    pc \in {"collect", "write"} => BlocksWellFormed(TRUE)

\* C10: the files with a content block are the files listed in the tree less
\* those whose read failed; at every moment a file with a block is listed.
C10_BlocksAreTreeMinusFailed ==
    /\ BlockFiles \subseteq TreeFiles
    /\ Collected => BlockFiles = { f \in TreeFiles : Readable(f) }

\* The walks are over, a listed file failed to read and another has a block.
C10_Witness ==
    /\ Collected
    /\ \E f \in TreeFiles : ~Readable(f) /\ ~HasBlock(f)
    /\ \E g \in TreeFiles : HasBlock(g)

====
